---- MODULE Spec2Model ----
(***************************************************************************)
(* Azure spot price checker (src/src/index.js, first definition of the     *)
(* class AzureSpotPriceChecker): one scheduled invocation ("run") fetches  *)
(* a price sample per region, loads the prior Dataset (remote document     *)
(* first, local snapshot as fallback), appends its Run Record, saves the   *)
(* record locally and replaces the remote document with the merged         *)
(* Dataset.  Invocations are separate processes that share the remote      *)
(* document and the local filesystem and may overlap in time.              *)
(* scripts/process-data.js reads the raw price log and writes the          *)
(* per-region summary; it is modelled by SpecAggregator, and a call of     *)
(* fetchPriceData taken alone by SpecFetch.                                *)
(***************************************************************************)
EXTENDS Integers, Sequences, FiniteSets, TLC

\* ------------------------------------------------------------------ bounds

\* Total number of invocations of main() in a behaviour of SpecSeq.
MaxRuns == 3

\* Total number of invocations of main() in a behaviour of Spec.
MaxOverlapRuns == 2

\* Scheduler slots: at most two invocations are alive at the same time.
Procs == {1, 2}

\* ------------------------------------------------------- program constants

\* REGIONS, in declaration order (region.name).
REGIONS == <<"eastus2", "northeurope">>

\* The three environment variables both GitHub functions read.
CredNames == {"GITHUB_TOKEN", "GITHUB_REPO", "GITHUB_OWNER"}

\* ------------------------------------------------------------ JS values

\* JavaScript null / a missing value.
Null == <<>>

\* An empty JavaScript array.
EmptyArray == <<>>

\* Items the pricing API can return (response.data.Items[i]).
ItemSpot ==
    [retailPrice |-> 1, unitPrice |-> 1, currencyCode |-> "USD",
     location |-> "loc", effectiveStartDate |-> "d1",
     meterName |-> "D16s v5 Spot", skuName |-> "D16s v5 Spot"]

ItemLowPriority ==
    [retailPrice |-> 2, unitPrice |-> 2, currencyCode |-> "USD",
     location |-> "loc", effectiveStartDate |-> "d2",
     meterName |-> "D16s v5 Low Priority", skuName |-> "D16s v5 Spot LP"]

\* What axios.get on the pricing endpoint can produce: a transport error or
\* a non-2xx status (axios rejects), or a 2xx body with or without Items.
PriceResponses ==
    { [kind |-> "neterr", hasItems |-> FALSE, Items |-> <<>>],
      [kind |-> "non2xx", hasItems |-> FALSE, Items |-> <<>>],
      [kind |-> "ok",     hasItems |-> FALSE, Items |-> <<>>],
      [kind |-> "ok",     hasItems |-> TRUE,  Items |-> <<>>],
      [kind |-> "ok",     hasItems |-> TRUE,  Items |-> <<ItemSpot>>],
      [kind |-> "ok",     hasItems |-> TRUE,  Items |-> <<ItemSpot, ItemLowPriority>>] }

\* JSON.stringify(value, null, 2): the text of a value.
JSONStringify(value) == <<"json", value>>

\* JSON.parse(text).
JSONParse(text) == text[2]

\* Buffer.from(text).toString('base64').
Base64Encode(text) == <<"base64", text>>

\* The base64 text as the store returns it: broken into lines.
LineWrap(content) == <<"wrapped", content>>

\* Buffer.from(content, 'base64').toString('utf8'): line breaks are skipped.
Base64Decode(content) ==
    IF content[1] = "wrapped" THEN content[2][2] ELSE content[2]

\* The git blob SHA of a document's content (a content hash).
ShaOf(content) == <<"sha", content>>

\* The remote document does not exist.
NoDocument == [present |-> FALSE, content |-> <<>>]

\* The local log file does not exist.
NoFile == [present |-> FALSE, text |-> <<>>]

IsPrefix(s, t) == Len(s) <= Len(t) /\ SubSeq(t, 1, Len(s)) = s

VARIABLES
    env,          \* process.env: the credential variables that are set
    clock,        \* the wall clock (new Date()), non-decreasing
    runs,         \* invocations started so far
    remote,       \* the remote document data/price-logs.json
    dirExists,    \* whether this.dataDir exists
    localFile,    \* this.logFile
    pc,           \* each invocation's position
    idx,          \* position of the for loop over REGIONS (1-based)
    results,      \* run(): results
    existingData, \* run(): existingData (allData in pushToGitHub)
    sha,          \* pushToGitHub(): sha
    exitCode,     \* process exit status (-1 while alive)
    fetchLog,     \* history: fetch requests, returns and delays of the run
    netLog,       \* history: requests sent to the remote store by the run
    localLog,     \* history: outcome of the run's saveData
    localRead,    \* history: what the run's read of the local file gave
    overlapped,   \* history: a run was started while another was alive
    accepted,     \* history: allData of the last PUT the store accepted
    fetched,      \* the last call of fetchPriceData made on its own
    rawData,      \* process-data.js: the content of data/price-logs.json
    outputFile,   \* process-data.js: the content of docs/price-data.json
    processed,    \* history: the invocations of processData
    appended,     \* history: the records the local log was given, in order
    readFailed    \* history: a save replaced a local log it could not read

vars == <<env, clock, runs, remote, dirExists, localFile, pc, idx, results,
          existingData, sha, exitCode, fetchLog, netLog, localLog, localRead,
          overlapped, accepted, fetched, rawData, outputFile, processed,
          appended, readFailed>>

\* What a run of the price checker does not touch.
offline == <<fetched, rawData, outputFile, processed, appended, readFailed>>

shared == <<env, clock, runs, remote, dirExists, localFile>>

Alive(p) == pc[p] \notin {"idle", "exited"}

\* --------------------------------------------------------- pure functions

\* Mutant: only the token is tested before the remote store is used.
CredentialsTokenOnly(environment) == "GITHUB_TOKEN" \in environment

\* if (!githubToken || !githubRepo || !githubOwner) is false.
CredentialsConfigured(environment) ==
    /\ "GITHUB_TOKEN" \in environment
    /\ "GITHUB_REPO" \in environment
    /\ "GITHUB_OWNER" \in environment

\* Mutant: a response with more than one item is treated as a failure.
fetchPriceDataSingle(region, response, now) ==
    IF response.kind = "ok" /\ response.hasItems /\ Len(response.Items) = 1
    THEN << [region |-> region,
             timestamp |-> now,
             retailPrice |-> response.Items[1].retailPrice,
             unitPrice |-> response.Items[1].unitPrice,
             currencyCode |-> response.Items[1].currencyCode,
             location |-> response.Items[1].location,
             effectiveStartDate |-> response.Items[1].effectiveStartDate,
             meterName |-> response.Items[1].meterName,
             skuName |-> response.Items[1].skuName] >>
    ELSE Null

\* Mutant: the last item of the response is taken instead of the first.
fetchPriceDataLast(region, response, now) ==
    IF response.kind = "ok" /\ response.hasItems /\ Len(response.Items) > 0
    THEN LET item == response.Items[Len(response.Items)]
         IN  << [region |-> region,
                 timestamp |-> now,
                 retailPrice |-> item.retailPrice,
                 unitPrice |-> item.unitPrice,
                 currencyCode |-> item.currencyCode,
                 location |-> item.location,
                 effectiveStartDate |-> item.effectiveStartDate,
                 meterName |-> item.meterName,
                 skuName |-> item.skuName] >>
    ELSE Null

\* fetchPriceData(region) given what axios.get produced: <<Sample>> or Null.
fetchPriceData(region, response, now) ==
    IF response.kind # "ok"
    THEN Null                                   \* catch (error): return null
    ELSE IF response.hasItems /\ Len(response.Items) > 0
         THEN LET item == response.Items[1]
              IN  << [region |-> region,
                      timestamp |-> now,
                      retailPrice |-> item.retailPrice,
                      unitPrice |-> item.unitPrice,
                      currencyCode |-> item.currencyCode,
                      location |-> item.location,
                      effectiveStartDate |-> item.effectiveStartDate,
                      meterName |-> item.meterName,
                      skuName |-> item.skuName] >>
         ELSE Null                              \* No pricing data found

\* obj[key] = value on a JavaScript object (ordered key/value pairs).
SetProperty(obj, key, value) ==
    IF \E i \in DOMAIN obj : obj[i][1] = key
    THEN [i \in DOMAIN obj |-> IF obj[i][1] = key THEN <<key, value>> ELSE obj[i]]
    ELSE Append(obj, <<key, value>>)

\* Object.keys(obj), in insertion order.
Keys(obj) == [i \in DOMAIN obj |-> obj[i][1]]

\* run(): the body of the for loop up to the delay.
RecordRegion(res, regionName, priceData) ==
    IF priceData # Null
    THEN [res EXCEPT !.regions = SetProperty(res.regions, regionName, priceData[1])]
    ELSE res

\* Mutant: the loop stays on the region it has just fetched.
NextRegionRepeat(i) == i

\* run(): the for loop's step to the next region, taken after the delay.
NextRegion(i) == i + 1

\* Mutant: the loop is left after the first region.
LoopDoneEarly(i) == i > 1

\* run(): the for loop has gone through REGIONS.
LoopDone(i) == i > Len(REGIONS)

\* The pricing API answered with at least one item.
HasPrice(response) ==
    response.kind = "ok" /\ response.hasItems /\ Len(response.Items) > 0

\* Entries of fetchLog: the request for a region is sent, it settles (with or
\* without a price), the delay after it elapses.
RequestEvent(i) == <<"request", REGIONS[i]>>

ReturnEvent(i, response) == <<"return", REGIONS[i], HasPrice(response)>>

DelayEvent(i) == <<"delay", REGIONS[i]>>

\* run(): one iteration of the for loop, from the call of fetchPriceData to
\* the assignment to results.regions.
AfterFetch(res, i, response, now) ==
    RecordRegion(res, REGIONS[i], fetchPriceData(REGIONS[i], response, now))

\* run(): the for loop from region i on, given the response to each request.
RECURSIVE FetchLoop(_, _, _, _, _)
FetchLoop(res, log, i, responses, now) ==
    IF LoopDone(i)
    THEN [results |-> res, fetchLog |-> log, idx |-> i]
    ELSE FetchLoop(AfterFetch(res, i, responses[i], now),
                   log \o <<RequestEvent(i), ReturnEvent(i, responses[i]),
                            DelayEvent(i)>>,
                   NextRegion(i), responses, now)

\* The remote store's possible answers to GET .../contents/data/price-logs.json:
\* the document with its sha, the sha without content (the answer the code
\* tests for with response.data.content), 404 when there is no document, or
\* a failure at any time (500 is any other error status, 0 a transport
\* failure or timeout).
GetReplies(doc) ==
    (IF doc.present
     THEN { [status |-> 200, content |-> LineWrap(doc.content),
              sha |-> ShaOf(doc.content)],
            [status |-> 200, content |-> Null, sha |-> ShaOf(doc.content)] }
     ELSE { [status |-> 404, content |-> Null, sha |-> Null] })
    \cup { [status |-> 500, content |-> Null, sha |-> Null],
           [status |-> 0,   content |-> Null, sha |-> Null] }

\* Texts that are not the JSON text of an array: text JSON.parse rejects, and
\* the JSON texts of null, of an object, of a non-empty string and of a number.
MalformedTexts ==
    { <<kind, EmptyArray>> : kind \in {"invalid", "null", "object", "string", "number"} }

\* What JSON.parse(text) does: it throws ("invalid") or returns a value of the
\* named type; JSONParse gives the elements when that value is an array.
ParsedType(text) == IF text[1] = "json" THEN "array" ELSE text[1]

\* fetchDataFromGitHub(), once axios.get has settled with `reply`.
fetchDataFromGitHub(reply) ==
    IF reply.status = 200
    THEN IF reply.content # Null
         THEN JSONParse(Base64Decode(reply.content))
         ELSE EmptyArray
    ELSE EmptyArray                             \* catch: 404 or any other error

\* The type of the value fetchDataFromGitHub() returns: JSON.parse is inside
\* the try, so text it rejects gives []; any value it returns is returned.
fetchDataFromGitHubType(reply) ==
    IF reply.status = 200 /\ reply.content # Null
    THEN IF ParsedType(Base64Decode(reply.content)) = "invalid"
         THEN "array"
         ELSE ParsedType(Base64Decode(reply.content))
    ELSE "array"

\* loadExistingData(): `githubData.length > 0`, evaluated outside any try.
\* null has no properties (TypeError); an object and a number have no length
\* (undefined > 0 is false); a non-empty string has a positive length.
LengthPositive(type, elements) ==
    CASE type = "null"   -> "throws"
      [] type = "array"  -> IF Len(elements) > 0 THEN "true" ELSE "false"
      [] type = "string" -> "true"
      [] OTHER           -> "false"

\* run(): existingData.push(results), outside any try; only an array has push.
PushThrows(type) == type # "array"

\* Mutant: the fallback never uses the local file.
ReadLocalNothing(file, readOk) == EmptyArray

\* loadExistingData(), the local fallback: fs.readFile + JSON.parse, or [].
ReadLocal(file, readOk) ==
    IF file.present /\ readOk
    THEN JSONParse(file.text)
    ELSE EmptyArray

\* How the read of the local file ended: with its content, without a file,
\* or with an error of fs.readFile or JSON.parse (all three are caught).
ReadResult(file, readOk) ==
    IF ~file.present THEN "not_found"
    ELSE IF readOk /\ ParsedType(file.text) \notin {"invalid", "null"}
         THEN "ok"
         ELSE "failed"

\* The type of the value the local fallback returns: JSON.parse and the
\* `localData.length` of the log line are inside the try, so rejected text
\* and null give []; an object, a string and a number are returned.
ReadLocalType(file, readOk) ==
    IF ReadResult(file, readOk) = "ok" THEN ParsedType(file.text) ELSE "array"

\* Mutant: the run's record replaces the loaded Dataset.
PushResultsReplace(existing, res) == <<res>>

\* Mutant: the run's record is put in front of the loaded Dataset.
PushResultsFront(existing, res) == <<res>> \o existing

\* run(): existingData.push(results).
PushResults(existing, res) == Append(existing, res)

\* ensureDataDirectory(): fs.access, then fs.mkdir when access failed.
\* error is the code of the error it throws, "none" when it returns.
ensureDataDirectory(dir, mkdirResult) ==
    IF dir
    THEN [dirExists |-> TRUE, error |-> "none"]
    ELSE IF mkdirResult = "ok"
         THEN [dirExists |-> TRUE, error |-> "none"]
         ELSE IF mkdirResult = "EROFS"
              THEN [dirExists |-> FALSE, error |-> "none"]
              ELSE [dirExists |-> FALSE, error |-> mkdirResult]

\* fs.writeFile(this.logFile, text): ENOENT without the directory.
WriteFileResult(dir, writeResult) == IF dir THEN writeResult ELSE "ENOENT"

\* Mutant: saveData absorbs only EROFS and rethrows any other error.
saveDataRethrow(newData, dir, file, mkdirResult, writeResult) ==
    LET ensured == ensureDataDirectory(dir, mkdirResult)
        written == WriteFileResult(ensured.dirExists, writeResult)
        error   == IF ensured.error # "none" THEN ensured.error
                   ELSE IF written # "ok" THEN written ELSE "none"
    IN  [dirExists |-> ensured.dirExists,
         localFile |-> IF error = "none"
                       THEN [present |-> TRUE, text |-> JSONStringify(<<newData>>)]
                       ELSE file,
         outcome   |-> IF error = "none" THEN "saved"
                       ELSE IF error = "EROFS" THEN "skipped-readonly"
                       ELSE "failed",
         error     |-> error,
         raised    |-> error \notin {"none", "EROFS"}]

\* Mutant: the record is appended to what the file already holds.
saveDataMerge(newData, dir, file, mkdirResult, writeResult) ==
    LET ensured == ensureDataDirectory(dir, mkdirResult)
        written == WriteFileResult(ensured.dirExists, writeResult)
        error   == IF ensured.error # "none" THEN ensured.error
                   ELSE IF written # "ok" THEN written ELSE "none"
        history == IF file.present THEN JSONParse(file.text) ELSE EmptyArray
    IN  [dirExists |-> ensured.dirExists,
         localFile |-> IF error = "none"
                       THEN [present |-> TRUE,
                             text |-> JSONStringify(Append(history, newData))]
                       ELSE file,
         outcome   |-> IF error = "none" THEN "saved"
                       ELSE IF error = "EROFS" THEN "skipped-readonly"
                       ELSE "failed",
         error     |-> error,
         raised    |-> FALSE]

\* saveData(newData): the filesystem afterwards, the outcome, and whether an
\* error leaves the function.
saveData(newData, dir, file, mkdirResult, writeResult) ==
    LET ensured == ensureDataDirectory(dir, mkdirResult)
        written == WriteFileResult(ensured.dirExists, writeResult)
        error   == IF ensured.error # "none" THEN ensured.error
                   ELSE IF written # "ok" THEN written ELSE "none"
    IN  [dirExists |-> ensured.dirExists,
         localFile |-> IF error = "none"
                       THEN [present |-> TRUE, text |-> JSONStringify(<<newData>>)]
                       ELSE file,
         outcome   |-> IF error = "none" THEN "saved"
                       ELSE IF error = "EROFS" THEN "skipped-readonly"
                       ELSE "failed",
         error     |-> error,
         raised    |-> FALSE]                   \* catch (error) absorbs both

\* Mutant: every failure of the sha read is taken for "no existing file".
ReadShaSwallow(reply) ==
    IF reply.status = 200
    THEN [sha |-> reply.sha, thrown |-> FALSE]
    ELSE [sha |-> Null, thrown |-> FALSE]

\* pushToGitHub(): sha after the inner try/catch around the first axios.get;
\* thrown when the error is rethrown to the outer catch.
ReadSha(reply) ==
    IF reply.status = 200
    THEN [sha |-> reply.sha, thrown |-> FALSE]
    ELSE IF reply.status = 404
         THEN [sha |-> Null, thrown |-> FALSE]
         ELSE [sha |-> Null, thrown |-> TRUE]

\* Mutant: only the run's own record is sent, as saveData writes it.
RequestBodyNewestOnly(allData, token) ==
    [content |-> Base64Encode(JSONStringify(<<allData[Len(allData)]>>)),
     branch  |-> "main",
     hasSha  |-> token # Null,
     sha     |-> token]

\* pushToGitHub(): requestBody.
RequestBody(allData, token) ==
    [content |-> Base64Encode(JSONStringify(allData)),
     branch  |-> "main",
     hasSha  |-> token # Null,
     sha     |-> token]

\* The remote store's handling of PUT: creates when the document is absent
\* and no sha is given, replaces when the sha names the current version,
\* and rejects the request otherwise.
StoreAccepts(doc, body) ==
    IF doc.present
    THEN body.hasSha /\ body.sha = ShaOf(doc.content)
    ELSE ~body.hasSha

\* The statuses axios.put can settle with: 0 is a transport failure.
PutStatuses(doc, body) ==
    (IF StoreAccepts(doc, body)
     THEN {IF doc.present THEN 200 ELSE 201}
     ELSE {IF doc.present THEN 409 ELSE 422})
    \cup {500, 0}

PutAccepted(status) == status \in {200, 201}

\* Mutant: the outer catch logs the error and throws it again.
AfterPutRethrow(status) == IF status \in {200, 201} THEN "done" ELSE "exited"

\* Mutant: after a PUT that failed the run waits for a reply that never comes.
AfterPutWait(status) == IF status \in {200, 201} THEN "done" ELSE "waiting"

\* Mutant: a PUT that failed is sent again.
AfterPutRetry(status) == IF status \in {200, 201} THEN "done" ELSE "put"

\* pushToGitHub(): where the run goes once axios.put has settled: the success
\* log or the outer catch, and in both cases the return to run().
AfterPut(status) == "done"

\* The remote document after a PUT that settled with `status`.
StoreAfterPut(doc, body, status) ==
    IF PutAccepted(status)
    THEN [present |-> TRUE, content |-> body.content]
    ELSE doc

\* The Dataset a stored document holds.
DatasetOf(doc) ==
    IF doc.present THEN JSONParse(Base64Decode(doc.content)) ELSE EmptyArray

\* How a request to the remote store settled, as the catch blocks tell the
\* cases apart: error.response.status === 404, a conflict (409, or 422 for a
\* missing sha), or anything else (another status, or no response at all).
ResultOf(status) ==
    IF status \in {200, 201} THEN "ok"
    ELSE IF status = 404 THEN "not_found"
    ELSE IF status \in {409, 422} THEN "conflict"
    ELSE "failed"

\* One entry of netLog: a GET with the sha it returned, or a PUT with the
\* sha and Dataset it carried and the remote document before and after it.
Request(op, status, token, body, before, after) ==
    [op |-> op, result |-> ResultOf(status), sha |-> token, body |-> body,
     before |-> before, after |-> after]

\* ------------------------------------------------------------------ state

\* The run has not read the local file.
NotRead == [result |-> "none", data |-> <<>>]

\* No call of fetchPriceData has been made on its own.
NoCall == [called |-> FALSE]

\* docs/price-data.json has not been written.
NoOutput == [present |-> FALSE]

\* results of a process that is not running.
NoResults == [timestamp |-> 0, regions |-> <<>>]

Init ==
    /\ env \in SUBSET CredNames
    /\ clock = 0
    /\ runs = 0
    /\ remote = NoDocument
    /\ dirExists \in BOOLEAN
    /\ localFile = NoFile
    /\ pc = [p \in Procs |-> "idle"]
    /\ idx = [p \in Procs |-> 1]
    /\ results = [p \in Procs |-> NoResults]
    /\ existingData = [p \in Procs |-> EmptyArray]
    /\ sha = [p \in Procs |-> Null]
    /\ exitCode = [p \in Procs |-> -1]
    /\ fetchLog = [p \in Procs |-> <<>>]
    /\ netLog = [p \in Procs |-> <<>>]
    /\ localLog = [p \in Procs |-> "none"]
    /\ localRead = [p \in Procs |-> NotRead]
    /\ overlapped = FALSE
    /\ accepted = Null
    /\ fetched = NoCall
    /\ rawData = EmptyArray
    /\ outputFile = NoOutput
    /\ processed = <<>>
    /\ appended = EmptyArray
    /\ readFailed = FALSE

\* main(): a new process is started by the scheduler; run() builds results.
StartRun(p) ==
    /\ pc[p] \in {"idle", "exited"}
    /\ runs' = runs + 1
    /\ clock' = clock + 1
    /\ pc' = [pc EXCEPT ![p] = "fetch"]
    /\ idx' = [idx EXCEPT ![p] = 1]
    /\ results' = [results EXCEPT ![p] = [timestamp |-> clock', regions |-> <<>>]]
    /\ existingData' = [existingData EXCEPT ![p] = EmptyArray]
    /\ sha' = [sha EXCEPT ![p] = Null]
    /\ exitCode' = [exitCode EXCEPT ![p] = -1]
    /\ fetchLog' = [fetchLog EXCEPT ![p] = <<>>]
    /\ netLog' = [netLog EXCEPT ![p] = <<>>]
    /\ localLog' = [localLog EXCEPT ![p] = "none"]
    /\ localRead' = [localRead EXCEPT ![p] = NotRead]
    /\ overlapped' = (overlapped \/ \E q \in Procs : Alive(q))
    /\ UNCHANGED <<offline, accepted, env, remote, dirExists, localFile>>

\* run(): fetchPriceData(region.name) is called and axios.get is sent.
FetchRequest(p) ==
    /\ pc[p] = "fetch"
    /\ pc' = [pc EXCEPT ![p] = "await"]
    /\ fetchLog' = [fetchLog EXCEPT ![p] = Append(@, RequestEvent(idx[p]))]
    /\ UNCHANGED <<offline, localRead, overlapped, accepted, shared, idx, results, existingData, sha, exitCode, netLog,
                   localLog>>

\* run(): axios.get settles, fetchPriceData returns, the region is recorded
\* and the delay timer is set.
FetchReturn(p) ==
    /\ pc[p] = "await"
    /\ \E response \in PriceResponses :
         /\ results' = [results EXCEPT ![p] = AfterFetch(@, idx[p], response, clock)]
         /\ fetchLog' = [fetchLog EXCEPT ![p] = Append(@, ReturnEvent(idx[p], response))]
    /\ pc' = [pc EXCEPT ![p] = "sleep"]
    /\ UNCHANGED <<offline, localRead, overlapped, accepted, shared, idx, existingData, sha, exitCode, netLog, localLog>>

\* run(): the 1000 ms timer fires and the loop goes on.
Delay(p) ==
    /\ pc[p] = "sleep"
    /\ idx' = [idx EXCEPT ![p] = NextRegion(@)]
    /\ pc' = [pc EXCEPT ![p] = IF LoopDone(idx'[p]) THEN "load" ELSE "fetch"]
    /\ fetchLog' = [fetchLog EXCEPT ![p] = Append(@, DelayEvent(idx[p]))]
    /\ UNCHANGED <<offline, localRead, overlapped, accepted, shared, results, existingData, sha, exitCode, netLog, localLog>>

\* run(): the whole for loop in one step, for behaviours in which only the
\* steps that touch the shared stores are interleaved (the loop reads and
\* writes nothing but the run's own results).
FetchAll(p) ==
    /\ pc[p] = "fetch"
    /\ \E responses \in [DOMAIN REGIONS -> PriceResponses] :
         LET loop == FetchLoop(results[p], fetchLog[p], idx[p], responses, clock)
         IN  /\ results' = [results EXCEPT ![p] = loop.results]
             /\ fetchLog' = [fetchLog EXCEPT ![p] = loop.fetchLog]
             /\ idx' = [idx EXCEPT ![p] = loop.idx]
    /\ pc' = [pc EXCEPT ![p] = "load"]
    /\ UNCHANGED <<offline, localRead, overlapped, accepted, shared, existingData, sha, exitCode, netLog, localLog>>

\* loadExistingData(): fetchDataFromGitHub() and the test of its length; a
\* non-empty result is returned and run() pushes results onto it.
LoadGitHub(p) ==
    /\ pc[p] = "load"
    /\ \E reply \in GetReplies(remote) :
         LET sent == CredentialsConfigured(env)
             githubData == IF sent THEN fetchDataFromGitHub(reply) ELSE EmptyArray
             type == IF sent THEN fetchDataFromGitHubType(reply) ELSE "array"
             test == LengthPositive(type, githubData)
             raised == test = "throws" \/ (test = "true" /\ PushThrows(type))
         IN  /\ netLog' = [netLog EXCEPT ![p] =
                             IF sent
                             THEN Append(@, Request("LOAD", reply.status, reply.sha,
                                                    githubData, NoDocument, NoDocument))
                             ELSE @]
             /\ IF raised                       \* rejects run(): unhandledRejection
                THEN /\ existingData' = existingData
                     /\ pc' = [pc EXCEPT ![p] = "exited"]
                     /\ exitCode' = [exitCode EXCEPT ![p] = 1]
                ELSE IF test = "true"
                THEN /\ existingData' = [existingData EXCEPT ![p] =
                                           PushResults(githubData, results[p])]
                     /\ pc' = [pc EXCEPT ![p] = "save"]
                     /\ exitCode' = exitCode
                ELSE /\ existingData' = existingData
                     /\ pc' = [pc EXCEPT ![p] = "local"]
                     /\ exitCode' = exitCode
    /\ UNCHANGED <<offline, localRead, overlapped, accepted, shared, idx, results, sha, fetchLog, localLog>>

\* loadExistingData(): the fallback to the local file; run() pushes results.
LoadLocal(p) ==
    /\ pc[p] = "local"
    /\ \E readOk \in BOOLEAN :
         LET localData == ReadLocal(localFile, readOk)
             raised == PushThrows(ReadLocalType(localFile, readOk))
         IN  /\ existingData' = [existingData EXCEPT ![p] =
                                    IF raised THEN @
                                    ELSE PushResults(localData, results[p])]
             /\ localRead' = [localRead EXCEPT ![p] =
                                 [result |-> ReadResult(localFile, readOk),
                                  data |-> localData]]
             /\ pc' = [pc EXCEPT ![p] = IF raised THEN "exited" ELSE "save"]
             /\ exitCode' = [exitCode EXCEPT ![p] = IF raised THEN 1 ELSE @]
    /\ UNCHANGED <<offline, overlapped, accepted, shared, idx, results, sha,
                   fetchLog, netLog, localLog>>

\* run(): await this.saveData(results).  An error leaving saveData rejects
\* run() and main(), and the unhandledRejection handler exits with status 1.
SaveData(p) ==
    /\ pc[p] = "save"
    /\ \E mkdirResult \in {"ok", "EROFS", "EACCES"},
          writeResult \in {"ok", "EROFS", "EACCES"} :
         LET saved == saveData(results[p], dirExists, localFile, mkdirResult, writeResult)
         IN  /\ dirExists' = saved.dirExists
             /\ localFile' = saved.localFile
             /\ localLog' = [localLog EXCEPT ![p] = saved.outcome]
             /\ pc' = [pc EXCEPT ![p] = IF saved.raised THEN "exited" ELSE "push"]
             /\ exitCode' = [exitCode EXCEPT ![p] = IF saved.raised THEN 1 ELSE @]
    /\ UNCHANGED <<offline, localRead, overlapped, accepted, env, clock, runs, remote, idx,
                   results, existingData, sha, fetchLog, netLog>>

\* pushToGitHub(allData): the credentials test and the GET that reads the sha.
PushReadSha(p) ==
    /\ pc[p] = "push"
    /\ \E reply \in GetReplies(remote) :
         IF CredentialsConfigured(env)
         THEN LET read == ReadSha(reply)
              IN  /\ sha' = [sha EXCEPT ![p] = read.sha]
                  /\ netLog' = [netLog EXCEPT ![p] =
                                  Append(@, Request("SHA", reply.status, reply.sha,
                                                    EmptyArray, NoDocument, NoDocument))]
                  /\ pc' = [pc EXCEPT ![p] = IF read.thrown THEN "done" ELSE "put"]
         ELSE /\ sha' = sha
              /\ netLog' = netLog
              /\ pc' = [pc EXCEPT ![p] = "done"]
    /\ UNCHANGED <<offline, localRead, overlapped, accepted, shared, idx, results, existingData, exitCode, fetchLog, localLog>>

\* pushToGitHub(allData): axios.put and the outer catch.  An error that left
\* pushToGitHub would reject run() and main(), and the unhandledRejection
\* handler would exit with status 1.
PushPut(p) ==
    /\ pc[p] = "put"
    /\ LET body == RequestBody(existingData[p], sha[p])
       IN  \E status \in PutStatuses(remote, body) :
             /\ remote' = StoreAfterPut(remote, body, status)
             /\ netLog' = [netLog EXCEPT ![p] =
                             Append(@, Request("PUT", status, body.sha,
                                               JSONParse(Base64Decode(body.content)),
                                               remote, remote'))]
             /\ accepted' = IF PutAccepted(status) THEN <<existingData[p]>> ELSE accepted
             /\ pc' = [pc EXCEPT ![p] = AfterPut(status)]
             /\ exitCode' = [exitCode EXCEPT ![p] =
                               IF AfterPut(status) = "exited" THEN 1 ELSE @]
    /\ UNCHANGED <<offline, localRead, overlapped, env, clock, runs, dirExists, localFile, idx,
                   results, existingData, sha, fetchLog, localLog>>

\* main(): process.exit(0) after run() has returned; the process and its
\* memory are gone.
Exit(p) ==
    /\ pc[p] = "done"
    /\ pc' = [pc EXCEPT ![p] = "exited"]
    /\ exitCode' = [exitCode EXCEPT ![p] = 0]
    /\ idx' = [idx EXCEPT ![p] = 1]
    /\ results' = [results EXCEPT ![p] = NoResults]
    /\ existingData' = [existingData EXCEPT ![p] = EmptyArray]
    /\ sha' = [sha EXCEPT ![p] = Null]
    /\ fetchLog' = [fetchLog EXCEPT ![p] = <<>>]
    /\ netLog' = [netLog EXCEPT ![p] = <<>>]
    /\ localLog' = [localLog EXCEPT ![p] = "none"]
    /\ localRead' = [localRead EXCEPT ![p] = NotRead]
    /\ UNCHANGED <<offline, overlapped, accepted, shared>>

\* main(): the scheduler starts a run whether or not another is alive.
RunStart(p) == runs < MaxOverlapRuns /\ StartRun(p)

\* Invocations that may overlap (two scheduler slots); the for loop is one
\* step.
Next ==
    \E p \in Procs :
        \/ RunStart(p)
        \/ FetchAll(p)
        \/ LoadGitHub(p)
        \/ LoadLocal(p)
        \/ SaveData(p)
        \/ PushReadSha(p)
        \/ PushPut(p)
        \/ Exit(p)

Spec == Init /\ [][Next]_vars

\* No other invocation is alive: runs that do not overlap.
Alone(p) == \A q \in Procs \ {p} : ~Alive(q)

\* main(): the scheduler starts a run only after the previous one has exited.
RunStartAlone(p) == runs < MaxRuns /\ Alone(p) /\ StartRun(p)

\* Invocations one after the other, the for loop step by step.
NextSeq ==
    \E p \in Procs :
        \/ RunStartAlone(p)
        \/ FetchRequest(p)
        \/ FetchReturn(p)
        \/ Delay(p)
        \/ LoadGitHub(p)
        \/ LoadLocal(p)
        \/ SaveData(p)
        \/ PushReadSha(p)
        \/ PushPut(p)
        \/ Exit(p)

SpecSeq == Init /\ [][NextSeq]_vars

\* main() with the steps of a run that cannot be postponed forever: every
\* await of run() is on a request or a timer that settles (each axios call is
\* given a timeout, fs calls return or fail, setTimeout fires), and Node then
\* runs the continuation.  The scheduler is under no obligation to start
\* another invocation.
FairSteps ==
    \A p \in Procs :
        /\ WF_vars(FetchRequest(p))
        /\ WF_vars(FetchReturn(p))
        /\ WF_vars(Delay(p))
        /\ WF_vars(LoadGitHub(p))
        /\ WF_vars(LoadLocal(p))
        /\ WF_vars(SaveData(p))
        /\ WF_vars(PushReadSha(p))
        /\ WF_vars(PushPut(p))
        /\ WF_vars(Exit(p))

MaxFairRuns == 2

\* main(): the scheduler starts a run only after the previous one has exited.
RunStartFair(p) == runs < MaxFairRuns /\ Alone(p) /\ StartRun(p)

\* Invocations one after the other, the for loop step by step.
NextSeqFair ==
    \E p \in Procs :
        \/ RunStartFair(p)
        \/ FetchRequest(p)
        \/ FetchReturn(p)
        \/ Delay(p)
        \/ LoadGitHub(p)
        \/ LoadLocal(p)
        \/ SaveData(p)
        \/ PushReadSha(p)
        \/ PushPut(p)
        \/ Exit(p)

SpecSeqFair == Init /\ [][NextSeqFair]_vars /\ FairSteps

\* ---------------------------------------------------------------------------
\* Runs that find stored content the program did not write: the remote
\* document and the local file are ordinary files that other writers can
\* replace, so a run may find any text in them.
\* ---------------------------------------------------------------------------

MaxMalformedRuns == 2

\* The remote document and the local file before the first run: absent, or
\* holding a text that is not the JSON text of an array.
InitMalformed ==
    /\ env \in {{}, CredNames}
    /\ clock = 0
    /\ runs = 0
    /\ remote \in {NoDocument} \cup
                  { [present |-> TRUE, content |-> Base64Encode(text)] :
                      text \in MalformedTexts }
    /\ localFile \in {NoFile} \cup
                     { [present |-> TRUE, text |-> text] : text \in MalformedTexts }
    /\ dirExists \in (IF localFile.present THEN {TRUE} ELSE BOOLEAN)
    /\ pc = [p \in Procs |-> "idle"]
    /\ idx = [p \in Procs |-> 1]
    /\ results = [p \in Procs |-> NoResults]
    /\ existingData = [p \in Procs |-> EmptyArray]
    /\ sha = [p \in Procs |-> Null]
    /\ exitCode = [p \in Procs |-> -1]
    /\ fetchLog = [p \in Procs |-> <<>>]
    /\ netLog = [p \in Procs |-> <<>>]
    /\ localLog = [p \in Procs |-> "none"]
    /\ localRead = [p \in Procs |-> NotRead]
    /\ overlapped = FALSE
    /\ accepted = Null
    /\ fetched = NoCall
    /\ rawData = EmptyArray
    /\ outputFile = NoOutput
    /\ processed = <<>>
    /\ appended = EmptyArray
    /\ readFailed = FALSE

\* main(): the scheduler starts a run only after the previous one has exited.
RunStartMalformed(p) == runs < MaxMalformedRuns /\ Alone(p) /\ StartRun(p)

\* Invocations one after the other; the for loop is one step.
NextMalformed ==
    \E p \in Procs :
        \/ RunStartMalformed(p)
        \/ FetchAll(p)
        \/ LoadGitHub(p)
        \/ LoadLocal(p)
        \/ SaveData(p)
        \/ PushReadSha(p)
        \/ PushPut(p)
        \/ Exit(p)

SpecMalformed == InitMalformed /\ [][NextMalformed]_vars

\* ------------------------------------------------ fetchPriceData on its own

\* Latest instant of the wall clock in a behaviour of SpecFetch.
MaxClock == 2

\* Items of the pricing API: a free one, two with different prices.
ItemFree ==
    [retailPrice |-> 0, unitPrice |-> 0, currencyCode |-> "EUR",
     location |-> "loc0", effectiveStartDate |-> "d0",
     meterName |-> "D16s v5 Spot", skuName |-> "D16s v5 Spot"]

ApiItems == {ItemFree, ItemSpot, ItemLowPriority}

\* What axios.get on the pricing endpoint can produce, with every Items list
\* of up to two items.
FetchResponses ==
    PriceResponses
    \cup { [kind |-> "ok", hasItems |-> TRUE, Items |-> <<a>>] : a \in ApiItems }
    \cup { [kind |-> "ok", hasItems |-> TRUE, Items |-> <<a, b>>] :
             a \in ApiItems, b \in ApiItems }

\* new Date(): time passes.
Tick ==
    /\ clock < MaxClock
    /\ clock' = clock + 1
    /\ UNCHANGED <<env, runs, remote, dirExists, localFile, pc, idx, results,
                   existingData, sha, exitCode, fetchLog, netLog, localLog,
                   localRead, overlapped, accepted, offline>>

\* fetchPriceData(region) is called and axios.get settles with `response`.
FetchCall ==
    /\ \E i \in DOMAIN REGIONS, response \in FetchResponses :
         fetched' = [called   |-> TRUE,
                     region   |-> REGIONS[i],
                     response |-> response,
                     now      |-> clock,
                     returned |-> fetchPriceData(REGIONS[i], response, clock)]
    /\ UNCHANGED <<shared, pc, idx, results, existingData, sha, exitCode,
                   fetchLog, netLog, localLog, localRead, overlapped, accepted,
                   rawData, outputFile, processed, appended, readFailed>>

InitFetch == Init /\ env = CredNames /\ dirExists

NextFetch == Tick \/ FetchCall

SpecFetch == InitFetch /\ [][NextFetch]_vars

\* ------------------------------- index.js, the variant with a local history

\* saveData(): const maxEntries = 1440.
maxEntries == 1440

MaxHistoryRuns == 2

\* loadExistingData(): fs.readFile + JSON.parse, or [] when either throws.
loadExistingDataHistory(file, readOk) ==
    IF file.present /\ readOk THEN JSONParse(file.text) ELSE EmptyArray

\* Mutant: the entries beyond the bound are cut off at the end.
SpliceNewest(data, max) ==
    IF Len(data) > max THEN SubSeq(data, 1, max) ELSE data

\* saveData(): existingData.splice(0, existingData.length - maxEntries) when
\* existingData.length > maxEntries.
SpliceOldest(data, max) ==
    IF Len(data) > max THEN SubSeq(data, Len(data) - max + 1, Len(data)) ELSE data

\* saveData(newData): ensureDataDirectory (mkdir is not in a try), the load,
\* push, the cut to maxEntries and fs.writeFile.  Nothing is caught: an error
\* of mkdir or writeFile leaves saveData and the file is as it was.
saveDataHistory(newData, dir, file, mkdirOk, readOk, writeOk) ==
    LET ensured  == dir \/ mkdirOk
        existing == loadExistingDataHistory(file, readOk)
        kept     == SpliceOldest(Append(existing, newData), maxEntries)
        raised   == ~ensured \/ ~writeOk
    IN  [dirExists |-> ensured,
         localFile |-> IF raised THEN file
                       ELSE [present |-> TRUE, text |-> JSONStringify(kept)],
         raised    |-> raised]

\* run(): await this.saveData(results), then pushToGitHub(results), which
\* only logs.  An error leaving saveData rejects run() and the process exits
\* with code 1.
SaveDataHistory(p) ==
    /\ pc[p] = "load"                           \* the for loop has ended
    /\ \E mkdirOk \in BOOLEAN, readOk \in BOOLEAN, writeOk \in BOOLEAN :
         LET saved == saveDataHistory(results[p], dirExists, localFile,
                                      mkdirOk, readOk, writeOk)
         IN  /\ dirExists' = saved.dirExists
             /\ localFile' = saved.localFile
             /\ localLog' = [localLog EXCEPT ![p] =
                                IF saved.raised THEN "failed" ELSE "saved"]
             /\ pc' = [pc EXCEPT ![p] = IF saved.raised THEN "exited" ELSE "done"]
             /\ exitCode' = [exitCode EXCEPT ![p] = IF saved.raised THEN 1 ELSE @]
             /\ appended' = IF saved.raised THEN appended
                            ELSE Append(appended, results[p])
             /\ readFailed' = (readFailed \/
                                 (~saved.raised /\ localFile.present /\ ~readOk))
    /\ UNCHANGED <<fetched, rawData, outputFile, processed, localRead, overlapped,
                   accepted, env, clock, runs, remote, idx, results, existingData,
                   sha, fetchLog, netLog>>

\* The local log left by n earlier runs, one entry per run.
EarlierLog(n) == [i \in 1..n |-> [timestamp |-> i, regions |-> <<>>]]

\* The local log before the first run modelled: absent, or at the bound or
\* one entry below it.
InitHistory ==
    /\ env = CredNames
    /\ \E n \in {0, maxEntries - 1, maxEntries} :
         /\ clock = n
         /\ appended = EarlierLog(n)
         /\ localFile = IF n = 0 THEN NoFile
                        ELSE [present |-> TRUE, text |-> JSONStringify(EarlierLog(n))]
    /\ dirExists \in (IF localFile.present THEN {TRUE} ELSE BOOLEAN)
    /\ readFailed = FALSE
    /\ runs = 0
    /\ remote = NoDocument
    /\ pc = [p \in Procs |-> "idle"]
    /\ idx = [p \in Procs |-> 1]
    /\ results = [p \in Procs |-> NoResults]
    /\ existingData = [p \in Procs |-> EmptyArray]
    /\ sha = [p \in Procs |-> Null]
    /\ exitCode = [p \in Procs |-> -1]
    /\ fetchLog = [p \in Procs |-> <<>>]
    /\ netLog = [p \in Procs |-> <<>>]
    /\ localLog = [p \in Procs |-> "none"]
    /\ localRead = [p \in Procs |-> NotRead]
    /\ overlapped = FALSE
    /\ accepted = Null
    /\ fetched = NoCall
    /\ rawData = EmptyArray
    /\ outputFile = NoOutput
    /\ processed = <<>>

\* main(): the scheduler starts a run only after the previous one has exited.
RunStartHistory(p) == runs < MaxHistoryRuns /\ Alone(p) /\ StartRun(p)

\* Invocations of the variant one after the other; the for loop is one step.
NextHistory ==
    \E p \in Procs :
        \/ RunStartHistory(p)
        \/ FetchAll(p)
        \/ SaveDataHistory(p)
        \/ Exit(p)

SpecHistory == InitHistory /\ [][NextHistory]_vars

\* ------------------------------------------------- scripts/process-data.js

\* Entries the raw price log holds when process-data.js reads it.
MaxEntries == 3

\* Invocations of process-data.js in a behaviour of SpecAggregator.
MaxInvocations == 2

\* Retail prices of the samples in the raw price log.
Prices == {1, 2}

\* A sample of the raw price log, as far as process-data.js reads it.
LoggedSample(regionName, price) ==
    [region |-> regionName, retailPrice |-> price, unitPrice |-> price,
     currencyCode |-> "USD", location |-> regionName]

\* The regions objects an entry of the raw price log can hold: any of the
\* configured regions, in declaration order, each with any price.
LoggedRegions ==
    { <<>> }
    \cup { << <<REGIONS[i], LoggedSample(REGIONS[i], price)>> >> :
             i \in DOMAIN REGIONS, price \in Prices }
    \cup { << <<REGIONS[1], LoggedSample(REGIONS[1], a)>>,
              <<REGIONS[2], LoggedSample(REGIONS[2], b)>> >> :
             a \in Prices, b \in Prices }

\* obj[key] is truthy (obj holds objects only).
HasProperty(obj, key) == \E i \in DOMAIN obj : obj[i][1] = key

\* obj[key].
GetProperty(obj, key) == obj[CHOOSE i \in DOMAIN obj : obj[i][1] = key][2]

\* entry.regions || {}.
RegionsOf(entry) == IF entry.hasRegions THEN entry.regions ELSE <<>>

\* Mutant: the bucket is created anew for every point.
PushPointFresh(regions, entry, regionName) ==
    LET sample == GetProperty(entry.regions, regionName)
    IN  SetProperty(regions, regionName,
                    [name |-> regionName,
                     displayName |-> sample.location,
                     data |-> << [timestamp |-> entry.timestamp,
                                  retailPrice |-> sample.retailPrice,
                                  unitPrice |-> sample.unitPrice,
                                  currencyCode |-> sample.currencyCode] >>])

\* The body of the inner forEach: the bucket of regionName is created when
\* it is missing and the entry's point is pushed onto its data.
PushPoint(regions, entry, regionName) ==
    LET sample == GetProperty(entry.regions, regionName)
        bucket == IF HasProperty(regions, regionName)
                  THEN GetProperty(regions, regionName)
                  ELSE [name |-> regionName,
                        displayName |-> sample.location,
                        data |-> <<>>]
        point  == [timestamp |-> entry.timestamp,
                   retailPrice |-> sample.retailPrice,
                   unitPrice |-> sample.unitPrice,
                   currencyCode |-> sample.currencyCode]
    IN  SetProperty(regions, regionName,
                    [bucket EXCEPT !.data = Append(@, point)])

\* Object.keys(entry.regions || {}).forEach(...), from the k-th key on.
RECURSIVE GroupKeys(_, _, _)
GroupKeys(regions, entry, k) ==
    IF k > Len(Keys(RegionsOf(entry)))
    THEN regions
    ELSE GroupKeys(PushPoint(regions, entry, Keys(RegionsOf(entry))[k]),
                   entry, k + 1)

\* priceData.forEach(...), from the i-th entry on.
RECURSIVE GroupEntries(_, _, _)
GroupEntries(regions, priceData, i) ==
    IF i > Len(priceData)
    THEN regions
    ELSE GroupEntries(GroupKeys(regions, priceData[i], 1), priceData, i + 1)

\* prices.reduce((a, b) => a + b, 0), from the i-th price on.
RECURSIVE ReduceSum(_, _, _)
ReduceSum(acc, prices, i) ==
    IF i > Len(prices) THEN acc ELSE ReduceSum(acc + prices[i], prices, i + 1)

\* Math.min(...prices) and Math.max(...prices) of a non-empty list.
MathMin(prices) ==
    CHOOSE m \in {prices[i] : i \in DOMAIN prices} :
        \A i \in DOMAIN prices : m <= prices[i]

MathMax(prices) ==
    CHOOSE m \in {prices[i] : i \in DOMAIN prices} :
        \A i \in DOMAIN prices : m >= prices[i]

\* a / b, kept as the exact quotient.
Quotient(a, b) == [num |-> a, den |-> b]

\* Mutant: current is the first price of the bucket.
StatsFirst(prices) ==
    IF Len(prices) > 0
    THEN [count   |-> Len(prices),
          current |-> <<prices[1]>>,
          min     |-> <<MathMin(prices)>>,
          max     |-> <<MathMax(prices)>>,
          avg     |-> <<Quotient(ReduceSum(0, prices, 1), Len(prices))>>]
    ELSE [count |-> 0, current |-> Null, min |-> Null, max |-> Null,
          avg |-> Null]

\* The stats object of a region; a field that is null is Null.
Stats(prices) ==
    IF Len(prices) > 0
    THEN [count   |-> Len(prices),
          current |-> <<prices[Len(prices)]>>,
          min     |-> <<MathMin(prices)>>,
          max     |-> <<MathMax(prices)>>,
          avg     |-> <<Quotient(ReduceSum(0, prices, 1), Len(prices))>>]
    ELSE [count |-> 0, current |-> Null, min |-> Null, max |-> Null,
          avg |-> Null]

\* The second forEach: stats is set on every bucket.
WithStats(regions) ==
    [k \in DOMAIN regions |->
        LET bucket == regions[k][2]
            prices == [j \in DOMAIN bucket.data |-> bucket.data[j].retailPrice]
        IN  <<regions[k][1],
              [name |-> bucket.name, displayName |-> bucket.displayName,
               data |-> bucket.data, stats |-> Stats(prices)]>>]

\* Mutant: the date range ends at the time of the invocation.
processDataRangeToNow(priceData, now) ==
    [lastUpdated |-> now,
     regions |-> WithStats(GroupEntries(<<>>, priceData, 1)),
     summary |-> [totalEntries |-> Len(priceData),
                  dateRange |->
                    [start |-> IF Len(priceData) > 0
                               THEN <<priceData[1].timestamp>> ELSE Null,
                     end   |-> IF Len(priceData) > 0 THEN <<now>> ELSE Null]]]

\* processData(): processedData built from the parsed raw price log at time
\* `now`.
processData(priceData, now) ==
    [lastUpdated |-> now,
     regions |-> WithStats(GroupEntries(<<>>, priceData, 1)),
     summary |-> [totalEntries |-> Len(priceData),
                  dateRange |->
                    [start |-> IF Len(priceData) > 0
                               THEN <<priceData[1].timestamp>> ELSE Null,
                     end   |-> IF Len(priceData) > 0
                               THEN <<priceData[Len(priceData)].timestamp>>
                               ELSE Null]]]

\* The raw price log grows by one entry (a commit of the price checker).
AppendEntry ==
    /\ Len(rawData) < MaxEntries
    /\ clock' = clock + 1
    /\ \E hasRegions \in BOOLEAN, regions \in LoggedRegions :
         /\ hasRegions \/ regions = <<>>
         /\ rawData' = Append(rawData, [timestamp |-> clock',
                                        hasRegions |-> hasRegions,
                                        regions |-> regions])
    /\ UNCHANGED <<env, runs, remote, dirExists, localFile, pc, idx, results,
                   existingData, sha, exitCode, fetchLog, netLog, localLog,
                   localRead, overlapped, accepted, fetched, outputFile, processed,
                   appended, readFailed>>

\* processData(): the raw price log is read and parsed, the summary is built
\* and written to docs/price-data.json.  When reading, mkdir or writing
\* fails, the catch block exits with status 1 and nothing is replaced.
ProcessData ==
    /\ Len(processed) < MaxInvocations
    /\ \E ioOk \in BOOLEAN :
         LET priceData == JSONParse(JSONStringify(rawData))
             processedData == processData(priceData, clock + 1)
         IN  IF ioOk
             THEN /\ clock' = clock + 1
                  /\ outputFile' = [present |-> TRUE,
                                    text |-> JSONStringify(processedData)]
                  /\ processed' = Append(processed,
                                         [input  |-> rawData,
                                          at     |-> clock',
                                          status |-> 0,
                                          output |-> <<processedData>>])
             ELSE UNCHANGED <<clock, outputFile, processed>>
    /\ UNCHANGED <<env, runs, remote, dirExists, localFile, pc, idx, results,
                   existingData, sha, exitCode, fetchLog, netLog, localLog,
                   localRead, overlapped, accepted, fetched, rawData,
                   appended, readFailed>>

InitAggregator == Init /\ env = CredNames /\ dirExists

NextAggregator == AppendEntry \/ ProcessData

SpecAggregator == InitAggregator /\ [][NextAggregator]_vars

\* ----------------------------------------------------------------- claims

\* The entries of a run's netLog for one kind of request.
Entries(p, op) == {i \in DOMAIN netLog[p] : netLog[p][i].op = op}

\* The run is past loadExistingData and existingData.push(results).
Merged(p) == pc[p] \in {"save", "push", "put", "done"}

\* The run is past the for loop over REGIONS.
PastLoop(p) == pc[p] \in {"load", "local", "save", "push", "put", "done"}

Last(s) == s[Len(s)]

\* C1: when the remote load returned a non-empty Dataset of length N and the
\* write was accepted, the document written is the loaded Dataset, unchanged
\* and in order, followed by the run's one Run Record (length N + 1).
C1_AcceptedWriteIsLoadedPlusOne ==
    \A p \in Procs :
        \A i \in Entries(p, "LOAD"), j \in Entries(p, "PUT") :
            (netLog[p][i].result = "ok" /\ Len(netLog[p][i].body) > 0
                /\ netLog[p][j].result = "ok")
            => /\ DatasetOf(netLog[p][j].after)
                    = netLog[p][i].body \o <<results[p]>>
               /\ Len(DatasetOf(netLog[p][j].after)) = Len(netLog[p][i].body) + 1
               /\ netLog[p][j].after.present

\* C1 witness: a run loaded two records, one of its regions failed, and its
\* write was accepted.
C1_Witness ==
    \E p \in Procs :
        \E i \in Entries(p, "LOAD"), j \in Entries(p, "PUT") :
            /\ netLog[p][i].result = "ok"
            /\ Len(netLog[p][i].body) = 2
            /\ netLog[p][j].result = "ok"
            /\ Len(results[p].regions) = 1

\* C2 (as claimed): the remote Dataset is append-only over runs that do not
\* overlap: every write leaves the Dataset it found as a prefix of the
\* Dataset it stores, whichever of the run's requests failed.
C2_RemoteAppendOnly ==
    \A p \in Procs :
        \A j \in Entries(p, "PUT") :
            IsPrefix(DatasetOf(netLog[p][j].before), DatasetOf(netLog[p][j].after))

\* C3 (as claimed): a run whose load was answered (with the document or with
\* 404) writes with the token of the version it loaded, so an accepted write
\* keeps every Run Record the document held (no lost update), also when runs
\* overlap.
C3_NoLostUpdate ==
    \A p \in Procs :
        \A i \in Entries(p, "LOAD"), j \in Entries(p, "PUT") :
            (netLog[p][i].result \in {"ok", "not_found"}
                /\ netLog[p][j].result = "ok")
            => /\ netLog[p][j].sha = netLog[p][i].sha
               /\ IsPrefix(DatasetOf(netLog[p][j].before),
                           DatasetOf(netLog[p][j].after))

\* C4 (as claimed): when the remote load returns 404 the Dataset submitted
\* has exactly one Run Record, whatever the local snapshot file holds.
C4_NotFoundGivesOneRecord ==
    \A p \in Procs :
        \A i \in Entries(p, "LOAD") :
            (netLog[p][i].result = "not_found" /\ Merged(p))
            => Len(existingData[p]) = 1

\* C4 (amended): when the remote load returns 404 the prior Dataset is the
\* local snapshot when the file is present and readable and the empty
\* sequence otherwise: the Dataset submitted is the run's record alone when
\* there is no local file, and at most the snapshot followed by the run's
\* record when there is one.
C4_NotFoundFallsBackToLocal ==
    \A p \in Procs :
        \A i \in Entries(p, "LOAD") :
            (netLog[p][i].result = "not_found" /\ Merged(p))
            => /\ Len(existingData[p]) \in {1, 2}
               /\ Last(existingData[p]) = results[p]
               /\ pc[p] = "save"
                    => /\ ~localFile.present => existingData[p] = <<results[p]>>
                       /\ Len(existingData[p]) = 2
                            => /\ localFile.present
                               /\ localFile.text = JSONStringify(<<existingData[p][1]>>)

\* C4 witness: the load returned 404, a snapshot of an earlier run was read,
\* and the run is about to save two records.
C4_Witness ==
    \E p \in Procs :
        \E i \in Entries(p, "LOAD") :
            /\ netLog[p][i].result = "not_found"
            /\ pc[p] = "put"
            /\ Len(existingData[p]) = 2

\* The regions whose request settled with a price, in the order of the log.
RECURSIVE Succeeded(_)
Succeeded(log) ==
    IF log = <<>> THEN <<>>
    ELSE LET e == log[1]
         IN  (IF e[1] = "return" /\ e[3] THEN <<e[2]>> ELSE <<>>)
             \o Succeeded(Tail(log))

\* C5: for every combination of fetch outcomes the Run Record's regions hold
\* exactly the keys of the regions whose fetch succeeded; the record is
\* appended to the Dataset, handed to the local save and to the remote save,
\* and no fetch failure ends the run or skips a region.
C5_PartialSuccessPersisted ==
    \A p \in Procs :
        /\ exitCode[p] # 1
        /\ Alive(p) => Keys(results[p].regions) = Succeeded(fetchLog[p])
        /\ PastLoop(p) => Len(fetchLog[p]) = 3 * Len(REGIONS)
        /\ Merged(p) => Last(existingData[p]) = results[p]
        /\ pc[p] \in {"push", "put", "done"}
             => /\ localLog[p] # "none"
                /\ localLog[p] = "saved"
                     => localFile = [present |-> TRUE,
                                     text |-> JSONStringify(<<results[p]>>)]
        /\ \A j \in Entries(p, "PUT") : Last(netLog[p][j].body) = results[p]

\* C5 witness: every region failed and the empty record was still saved
\* locally and accepted remotely.
C5_Witness ==
    \E p \in Procs :
        /\ pc[p] = "done"
        /\ results[p].regions = <<>>
        /\ localLog[p] = "saved"
        /\ \E j \in Entries(p, "PUT") : netLog[p][j].result = "ok"

\* C6: no failure of directory creation or of the file write, read-only
\* filesystem or other, leaves saveData: the run goes on to pushToGitHub
\* with the full updated Dataset and exits with status 0.
C6_LocalFailureAbsorbed ==
    \A p \in Procs :
        /\ exitCode[p] # 1
        /\ localLog[p] \in {"skipped-readonly", "failed"}
             => /\ pc[p] \in {"push", "put", "done"}
                /\ Last(existingData[p]) = results[p]
                /\ \A j \in Entries(p, "PUT") : netLog[p][j].body = existingData[p]

\* C6 witness: the local save failed with an error other than EROFS and the
\* remote write of the run was accepted all the same.
C6_Witness ==
    \E p \in Procs :
        /\ localLog[p] = "failed"
        /\ pc[p] = "done"
        /\ \E j \in Entries(p, "PUT") : netLog[p][j].result = "ok"

\* C7: a run sends at most one PUT; a PUT that fails (conflict, other status,
\* transport failure) leaves the remote document as it was, is the run's last
\* request, and the run returns to main() and exits with status 0.
C7_FailedWriteNotRetried ==
    \A p \in Procs :
        /\ Cardinality(Entries(p, "PUT")) <= 1
        /\ exitCode[p] # 1
        /\ \A j \in Entries(p, "PUT") :
             /\ j = Len(netLog[p])
             /\ pc[p] = "done"
             /\ netLog[p][j].result # "ok"
                  => netLog[p][j].after = netLog[p][j].before

\* C7 witness: a PUT failed and the run is about to exit.
C7_Witness ==
    \E p \in Procs :
        \E j \in Entries(p, "PUT") :
            /\ netLog[p][j].result = "failed"
            /\ netLog[p][j].before.present
            /\ pc[p] = "done"

\* C8: with any of owner, repository or credential absent a run sends no
\* request to the remote store, the remote document stays as it was, and the
\* run does not exit with a failure status.
C8_NoCredentialsNoRequests ==
    (CredNames \ env # {})
    => /\ remote = NoDocument
       /\ \A p \in Procs : netLog[p] = <<>> /\ exitCode[p] # 1

\* C8 witness: a run without the repository name went through both stores'
\* steps and exited with status 0.
C8_Witness ==
    /\ env = CredNames \ {"GITHUB_REPO"}
    /\ localFile.present
    /\ \E p \in Procs : pc[p] = "exited" /\ exitCode[p] = 0

\* C9: a PUT directly follows the run's sha read; it carries the sha the read
\* returned, or none when the read returned 404; no PUT follows a read that
\* failed otherwise; and the PUT carries the whole Dataset.
C9_WriteFollowsShaRead ==
    \A p \in Procs :
        /\ \A j \in Entries(p, "PUT") :
             /\ j > 1
             /\ netLog[p][j - 1].op = "SHA"
             /\ netLog[p][j - 1].result \in {"ok", "not_found"}
             /\ netLog[p][j - 1].result = "ok"
                  => netLog[p][j].sha = netLog[p][j - 1].sha /\ netLog[p][j].sha # Null
             /\ netLog[p][j - 1].result = "not_found" => netLog[p][j].sha = Null
             /\ netLog[p][j].body = existingData[p]
        /\ \A k \in Entries(p, "SHA") :
             /\ netLog[p][k].result = "failed" => k = Len(netLog[p]) /\ pc[p] = "done"
             /\ netLog[p][k].result # "failed" /\ k = Len(netLog[p]) => pc[p] = "put"

\* C9 witness: the read returned a sha and the update carrying it and two
\* records was accepted.
C9_Witness ==
    \E p \in Procs :
        \E j \in Entries(p, "PUT") :
            /\ netLog[p][j].sha # Null
            /\ netLog[p][j].result = "ok"
            /\ Len(netLog[p][j].body) = 2

\* The order in which a run sends, settles and spaces its fetches.
RECURSIVE ExpectedEvents(_)
ExpectedEvents(i) ==
    IF i > Len(REGIONS) THEN <<>>
    ELSE <<<<"request", REGIONS[i]>>, <<"return", REGIONS[i]>>, <<"delay", REGIONS[i]>>>>
         \o ExpectedEvents(i + 1)

\* What happened and for which region, for each entry of a fetchLog.
EventKinds(log) == [i \in DOMAIN log |-> <<log[i][1], log[i][2]>>]

\* C10: in a run every region is requested once, in declaration order, and a
\* request is sent only after the previous one has settled and its delay has
\* elapsed; a failed fetch is not sent again.
C10_FetchesSequentialOnce ==
    \A p \in Procs :
        /\ IsPrefix(EventKinds(fetchLog[p]), ExpectedEvents(1))
        /\ PastLoop(p) => EventKinds(fetchLog[p]) = ExpectedEvents(1)
        /\ pc[p] = "await" => Last(fetchLog[p])[1] = "request"
        /\ pc[p] = "sleep" => Last(fetchLog[p])[1] = "return"
        /\ pc[p] = "fetch" => (fetchLog[p] = <<>> \/ Last(fetchLog[p])[1] = "delay")

\* C10 witness: the first fetch failed and the second region's request is in
\* flight.
C10_Witness ==
    \E p \in Procs :
        /\ pc[p] = "await"
        /\ Len(fetchLog[p]) = 4
        /\ fetchLog[p][2][3] = FALSE
        /\ fetchLog[p][4] = <<"request", REGIONS[2]>>

\* The fields fetchPriceData copies from the item.
ItemFields ==
    {"retailPrice", "unitPrice", "currencyCode", "location",
     "effectiveStartDate", "meterName", "skuName"}

\* fetchPriceData copied every field of the item into the Sample.
CopiedFrom(sample, item) ==
    /\ sample.retailPrice = item.retailPrice
    /\ sample.unitPrice = item.unitPrice
    /\ sample.currencyCode = item.currencyCode
    /\ sample.location = item.location
    /\ sample.effectiveStartDate = item.effectiveStartDate
    /\ sample.meterName = item.meterName
    /\ sample.skuName = item.skuName

\* C11: fetchPriceData returns a Sample exactly when the request succeeded
\* with a non-empty Items list; the Sample then carries the requested region
\* and the seven fields of Items[0], whatever items follow; a transport
\* error, a non-2xx status and a missing or empty Items list all give the
\* failure marker null, which the function returns.
C11_SampleIsFirstItem ==
    fetched.called
    => LET response == fetched.response
           returned == fetched.returned
       IN  /\ returned # Null
                <=> (response.kind = "ok" /\ response.hasItems
                       /\ Len(response.Items) > 0)
           /\ returned # Null
                => /\ Len(returned) = 1
                   /\ returned[1].region = fetched.region
                   /\ CopiedFrom(returned[1], response.Items[1])
                   /\ DOMAIN returned[1] = ItemFields \cup {"region", "timestamp"}
           /\ response.kind \in {"neterr", "non2xx"} => returned = Null
           /\ (~response.hasItems \/ response.Items = <<>>) => returned = Null

\* C11 witness: the response held two different items, the free one first,
\* and the Sample returned for northeurope has price 0.
C11_Witness ==
    /\ fetched.called
    /\ fetched.region = "northeurope"
    /\ fetched.response.Items = <<ItemFree, ItemLowPriority>>
    /\ fetched.returned # Null
    /\ fetched.returned[1].retailPrice = 0

\* C12: whatever fails in a run (region fetches, the remote load with any
\* status or none, missing credentials, the local save, the sha read, the
\* PUT), the process ends through process.exit(0): no run exits with a
\* non-zero status, and a run that has ended has status 0.
C12_ExpectedFailuresExitZero ==
    \A p \in Procs :
        /\ exitCode[p] \in {-1, 0}
        /\ pc[p] = "exited" <=> exitCode[p] = 0
        /\ Alive(p) => exitCode[p] = -1

\* C12 witness: with credentials set, the first run has exited with status
\* 0 although neither its local save nor its remote save stored anything.
C12_Witness ==
    /\ env = CredNames
    /\ runs = 1
    /\ ~localFile.present
    /\ ~remote.present
    /\ \E p \in Procs : pc[p] = "exited" /\ exitCode[p] = 0

\* C13: the local file holds at most one Run Record at any time: a local
\* save that succeeds replaces the file by the one record of the run that
\* saves, a save that fails or is skipped leaves the file as it was, and no
\* other step of a run changes the file.
C13_LocalFileHoldsOneRecord ==
    [][ /\ \A p \in Procs :
             (pc[p] = "save" /\ pc'[p] # "save")
             => \/ /\ localLog'[p] = "saved"
                   /\ localFile' = [present |-> TRUE,
                                    text |-> JSONStringify(<<results[p]>>)]
                \/ /\ localLog'[p] \in {"skipped-readonly", "failed"}
                   /\ localFile' = localFile
        /\ localFile' # localFile
             => \E p \in Procs : pc[p] = "save" /\ pc'[p] # "save"
        /\ localFile'.present => Len(JSONParse(localFile'.text)) = 1 ]_vars

\* C13 witness: the second run's local save failed and the file still holds
\* the one record of the first run.
C13_Witness ==
    /\ localFile.present
    /\ Len(JSONParse(localFile.text)) = 1
    /\ JSONParse(localFile.text)[1].timestamp = 1
    /\ \E p \in Procs : results[p].timestamp = 2 /\ localLog[p] = "failed"

\* The timestamps of a Dataset never go down along the sequence.
NonDecreasing(dataset) ==
    \A i \in 1 .. Len(dataset) - 1 :
        dataset[i].timestamp <= dataset[i + 1].timestamp

\* C14 (as claimed): the Run Record timestamps of the remote Dataset are
\* non-decreasing in sequence order after any runs, overlapping ones included.
C14_TimestampsNonDecreasing == NonDecreasing(DatasetOf(remote))

\* C14 (amended): the Run Record timestamps of the remote Dataset are
\* non-decreasing in sequence order as long as no run was started while
\* another was still running.
C14_TimestampsNonDecreasingAlone ==
    ~overlapped => NonDecreasing(DatasetOf(remote))

\* C14 witness: two runs, one after the other, have both been appended.
C14_Witness ==
    /\ ~overlapped
    /\ runs = 2
    /\ Len(DatasetOf(remote)) = 2
    /\ DatasetOf(remote)[1].timestamp < DatasetOf(remote)[2].timestamp

\* The names of the configured regions.
RegionNames == {REGIONS[i] : i \in DOMAIN REGIONS}

\* The invocations of process-data.js that wrote a summary.
Summaries == {n \in DOMAIN processed : processed[n].status = 0}

\* The entries of a Dataset that hold a Sample of region r, in Dataset order.
EntriesWith(dataset, r) ==
    SelectSeq(dataset, LAMBDA entry : HasProperty(RegionsOf(entry), r))

\* The points the Samples of region r contribute, in Dataset order.
PointsOf(dataset, r) ==
    LET with == EntriesWith(dataset, r)
    IN  [j \in DOMAIN with |->
            LET sample == GetProperty(with[j].regions, r)
            IN  [timestamp |-> with[j].timestamp,
                 retailPrice |-> sample.retailPrice,
                 unitPrice |-> sample.unitPrice,
                 currencyCode |-> sample.currencyCode]]

\* The number of Samples of a Dataset.
RECURSIVE TotalSamples(_)
TotalSamples(dataset) ==
    IF dataset = <<>> THEN 0
    ELSE Len(RegionsOf(dataset[1])) + TotalSamples(Tail(dataset))

\* The sum of the counts of the buckets of a summary.
RECURSIVE TotalCount(_)
TotalCount(regions) ==
    IF regions = <<>> THEN 0
    ELSE regions[1][2].stats.count + TotalCount(Tail(regions))

\* C15: for every Dataset, the empty one included, every Sample of every Run
\* Record is in exactly the bucket of its region key; a bucket holds its
\* Samples in Dataset order and its count is their number; the counts add up
\* to the number of Samples of the Dataset; a region without Samples has no
\* bucket.
C15_SamplesGroupedByRegion ==
    \A n \in Summaries :
        LET dataset == processed[n].input
            regions == processed[n].output[1].regions
        IN  /\ \A k \in DOMAIN regions :
                 /\ regions[k][1] \in RegionNames
                 /\ regions[k][2].name = regions[k][1]
                 /\ \A j \in DOMAIN regions : regions[j][1] = regions[k][1] => j = k
            /\ \A r \in RegionNames :
                 /\ HasProperty(regions, r) <=> EntriesWith(dataset, r) # <<>>
                 /\ HasProperty(regions, r)
                      => LET bucket == GetProperty(regions, r)
                         IN  /\ bucket.data = PointsOf(dataset, r)
                             /\ bucket.stats.count = Len(bucket.data)
                             /\ bucket.stats.count >= 1
            /\ TotalCount(regions) = TotalSamples(dataset)
            /\ dataset = <<>> => regions = <<>>

\* C15 witness: of three Run Records the first and the third hold a Sample
\* of eastus2 and only the second one of northeurope, and the summary was
\* written.
C15_Witness ==
    \E n \in Summaries :
        LET dataset == processed[n].input
        IN  /\ Len(dataset) = 3
            /\ Keys(RegionsOf(dataset[1])) = <<"eastus2">>
            /\ Keys(RegionsOf(dataset[2])) = <<"northeurope">>
            /\ Keys(RegionsOf(dataset[3])) = <<"eastus2">>
            /\ ~dataset[1].regions[1][2].retailPrice = dataset[3].regions[1][2].retailPrice

\* The retail prices of a bucket, in order.
PricesOf(bucket) == [j \in DOMAIN bucket.data |-> bucket.data[j].retailPrice]

\* The sum of a list of prices.
RECURSIVE SumOf(_)
SumOf(prices) == IF prices = <<>> THEN 0 ELSE prices[1] + SumOf(Tail(prices))

Occurrences(dataset, record) ==
    Cardinality({i \in DOMAIN dataset : dataset[i] = record})

\* C19: a run's steps come in one order: all region fetches have returned
\* before the load starts; the load, with its read of the local file, is
\* over before saveData; saveData is over before pushToGitHub sends its
\* first request.  So the snapshot the fallback reads was written by an
\* earlier run, and the Dataset handed to pushToGitHub holds the run's own
\* record once, as its last element.
C19_StepsInOrder ==
    \A p \in Procs :
        /\ (Alive(p) /\ ~PastLoop(p))
             => /\ netLog[p] = <<>>
                /\ localRead[p] = NotRead
                /\ localLog[p] = "none"
                /\ existingData[p] = EmptyArray
        /\ PastLoop(p)
             => /\ Len(fetchLog[p]) = 3 * Len(REGIONS)
                /\ \A i \in DOMAIN REGIONS :
                     \E k \in DOMAIN fetchLog[p] :
                         fetchLog[p][k][1] = "return" /\ fetchLog[p][k][2] = REGIONS[i]
        /\ pc[p] \in {"load", "local", "save"}
             => /\ localLog[p] = "none"
                /\ Entries(p, "SHA") = {} /\ Entries(p, "PUT") = {}
        /\ pc[p] \in {"load", "local"} => existingData[p] = EmptyArray
        /\ pc[p] = "load" => localRead[p] = NotRead
        /\ localLog[p] # "none" => pc[p] \in {"push", "put", "done"}
        /\ (Entries(p, "SHA") # {} \/ Entries(p, "PUT") # {})
             => localLog[p] # "none"
        /\ \A i \in Entries(p, "LOAD"), j \in Entries(p, "SHA") : i < j
        /\ localRead[p].result = "ok"
             => \A k \in DOMAIN localRead[p].data :
                    localRead[p].data[k].timestamp < results[p].timestamp
        /\ Merged(p)
             => /\ Occurrences(existingData[p], results[p]) = 1
                /\ Last(existingData[p]) = results[p]
        /\ \A j \in Entries(p, "PUT") :
             /\ Occurrences(netLog[p][j].body, results[p]) = 1
             /\ Last(netLog[p][j].body) = results[p]

\* C19 witness: the run read the snapshot of the first run, then replaced it
\* by its own record, and is about to send both records.
C19_Witness ==
    \E p \in Procs :
        /\ pc[p] = "put"
        /\ localRead[p].result = "ok"
        /\ localRead[p].data[1].timestamp = 1
        /\ results[p].timestamp = 2
        /\ localLog[p] = "saved"
        /\ localFile.text = JSONStringify(<<results[p]>>)
        /\ existingData[p] = <<localRead[p].data[1], results[p]>>

\* What fetchDataFromGitHub gave the run: the body of its GET, or the empty
\* array when the credentials are missing and no request was sent.
GithubData(p) ==
    IF Entries(p, "LOAD") = {} THEN EmptyArray
    ELSE netLog[p][CHOOSE i \in Entries(p, "LOAD") : TRUE].body

\* C20: the prior Dataset is the remote Dataset when the remote load gives a
\* non-empty one, and then the local file is not read; when the remote load
\* gives nothing (404, another failure, no credentials, a document without
\* content) it is the content of the local file if that can be read and
\* parsed, and the empty sequence otherwise; whichever branch is taken, the
\* run goes on to saveData.
C20_FallbackChain ==
    \A p \in Procs :
        /\ exitCode[p] \in {-1, 0}
        /\ Cardinality(Entries(p, "LOAD")) <= 1
        /\ \A i \in Entries(p, "LOAD") :
             netLog[p][i].result \in {"not_found", "failed"}
             => netLog[p][i].body = EmptyArray
        /\ pc[p] = "local" => GithubData(p) = EmptyArray
        /\ localRead[p] # NotRead => GithubData(p) = EmptyArray
        /\ Merged(p)
             => IF Len(GithubData(p)) > 0
                THEN /\ localRead[p] = NotRead
                     /\ existingData[p] = GithubData(p) \o <<results[p]>>
                ELSE /\ localRead[p] # NotRead
                     /\ localRead[p].result = "ok"
                          => existingData[p] = localRead[p].data \o <<results[p]>>
                     /\ localRead[p].result \in {"not_found", "failed"}
                          => existingData[p] = <<results[p]>>
        /\ pc[p] = "save"
             => /\ localRead[p].result = "ok"
                     => /\ localFile.present
                        /\ localRead[p].data = JSONParse(localFile.text)
                /\ localRead[p].result = "not_found" => ~localFile.present
                /\ localRead[p].result = "failed" => localFile.present

\* C20 witness: the store answered 200 without content, the run fell back
\* to the snapshot of an earlier run and is about to save.
C20_Witness ==
    \E p \in Procs :
        /\ pc[p] = "save"
        /\ \E i \in Entries(p, "LOAD") :
             netLog[p][i].result = "ok" /\ netLog[p][i].body = EmptyArray
        /\ localRead[p].result = "ok"
        /\ Len(existingData[p]) = 2


\* ---------------------------------------------------------------------------
\* C21.  Whatever text the remote document or the local file holds that is
\* not the JSON text of an array (text that is not JSON, or the JSON text of
\* null, an object, a string or a number), loading it raises nothing past
\* run(): no invocation ends through the unhandledRejection handler with
\* exit code 1, and an invocation that has loaded goes on to the local save,
\* the remote save and process.exit(0).
\* ---------------------------------------------------------------------------
C21_MalformedContentAbsorbed ==
    \A p \in Procs : pc[p] = "exited" => exitCode[p] = 0

\* ---------------------------------------------------------------------------
\* C22.  Every invocation that has started ends with the process exiting,
\* whatever the outcomes of its price requests, its load, its local save and
\* its remote save, given that each request it awaits settles: no outcome
\* leaves it waiting or looping.
\* ---------------------------------------------------------------------------
C22_EveryRunExits ==
    \A p \in Procs : Alive(p) ~> pc[p] = "exited"

\* An invocation has exited although no price was fetched and neither the
\* local file nor the remote document could be written.
C22_Witness ==
    \E p \in Procs :
        /\ pc[p] = "exited"
        /\ env = CredNames
        /\ runs = 1
        /\ ~localFile.present
        /\ ~remote.present

\* The entries of the local log.
LocalLogEntries == IF localFile.present THEN JSONParse(localFile.text) ELSE EmptyArray

\* s is the end of t.
IsSuffix(s, t) ==
    Len(s) <= Len(t) /\ SubSeq(t, Len(t) - Len(s) + 1, Len(t)) = s

\* ---------------------------------------------------------------------------
\* C23.  In the variant of saveData that keeps a local history, after any
\* sequence of runs the local log holds at most 1440 entries and they are the
\* most recent of the records it was given, in the order they were given:
\* entries leave only at the old end, as many as exceed the bound (a log that
\* could always be read holds the last 1440 records, or all of them when
\* there are fewer), and after a save the last entry is the record just
\* added.
\* ---------------------------------------------------------------------------
C23_LocalLogKeepsMostRecent ==
    /\ Len(LocalLogEntries) <= maxEntries
    /\ IsSuffix(LocalLogEntries, appended)
    /\ ~readFailed =>
          Len(LocalLogEntries) = IF Len(appended) > maxEntries
                                 THEN maxEntries ELSE Len(appended)
    /\ \A p \in Procs :
          pc[p] = "done" => Last(LocalLogEntries) = results[p]

\* A save took the log over the bound: more than 1440 records were given,
\* the log holds 1440 and the run that added the last one has not exited.
C23_Witness ==
    /\ Len(appended) > maxEntries
    /\ Len(LocalLogEntries) = maxEntries
    /\ LocalLogEntries[1] # appended[1]
    /\ \E p \in Procs : pc[p] = "done" /\ localLog[p] = "saved"
====
